---- MODULE Spec2Model ----
(***************************************************************************)
(* The Webex channel monitor (extensions/webex/src/monitor.ts): one run of *)
(* monitorWebexProvider, its webhook registration, its webhook request     *)
(* handler, its polling ticks and its shutdown, together with the remote   *)
(* platform they talk to (rooms, messages, webhook subscriptions).         *)
(*                                                                         *)
(* JavaScript runs one callback at a time: every action below is the code  *)
(* between two awaits of one async function, executed atomically.          *)
(***************************************************************************)
EXTENDS Integers, Sequences, FiniteSets, TLC

\* ------------------------------------------------------------------ bounds
\* Messages the remote platform ever holds.
MaxMsgs == 2
\* Polling ticks started over the life of a run (initial poll + timer fires).
MaxTicks == 2
\* Runs of monitorWebexProvider (the process restarted after a crash or a stop).
MaxRuns == 2
\* Length of the token strings of the environment and of the configuration.
MaxTokenLen == 3

\* --------------------------------------------------------------- constants
\* client.listMessages({roomId, max: 20})
ListMax == 20

Rooms == {"dm", "grp"}
Paths == {"poll", "webhook"}
\* The platform's room type of each room the bot is a member of.
RoomTypeOf(r) == IF r = "dm" THEN "direct" ELSE "group"

BotEmail == "bot@webex.bot"
UserEmail == "user@example.com"
Senders == {BotEmail, UserEmail}
\* Person ids: the bot's (probe.botInfo.id) and another member's.
BotId == "bot-id"
OtherId == "other-user-id"

\* A property that is not there, a value that is undefined.
Undefined == "undefined"

\* a || b on strings: b when a is undefined or empty.
OrElse(a, b) == IF a # Undefined /\ a # "" THEN a ELSE b

Modes == {"webhook", "polling", "both"}
\* channels.webex.mode in the configuration file: one of the three modes, not
\* set, empty, or a string that is none of the three.
ConfigModes == Modes \cup {Undefined, "", "poll"}
\* channels.webex.groupPolicy: one of its four values, or not set.
Unset == "unset"
GroupPolicies == {"open", "mention", "allowlist", "disabled", Unset}

\* Target urls and resources of remote webhook subscriptions.
WebhookUrl == "https://bot.example/webex/webhook"
OtherUrl == "https://other.example/hook"

\* Memberships of the bot that are explored.
RoomSets == { {"dm"}, {"grp"}, {"dm", "grp"} }

MsgIds == 1..MaxMsgs
\* Bodies POSTed to the webhook path besides the announcements of messages.
Bodies == {"otherResource", "otherEvent", "noData", "malformed"}
NotPosted == [status |-> 0, outcome |-> "none"]
TickIds == 1..MaxTicks

VARIABLES
  \* configuration, fixed for the run
  enabled,        \* channels.webex.enabled
  configMode,     \* channels.webex.mode as the configuration file has it
  mode,           \* const mode = webexCfg.mode || "webhook"
  groupPolicy,
  envToken,       \* process.env.WEBEX_BOT_TOKEN
  configToken,    \* channels.webex.botToken
  \* the remote platform
  botRooms,       \* the rooms the bot is a member of
  now,            \* the clock, in ms
  messages,       \* sequence of the messages created so far; the index is the id
  remoteWebhooks, \* set of subscriptions registered remotely
  \* monitorWebexProvider's closure
  phase,          \* where startup / shutdown stands
  credentials,    \* what resolveWebexCredentials returned to this run
  probe,          \* the startup probe: where it stands and the token it uses
  abortSignal,    \* opts.abortSignal.aborted
  again,          \* a further call of the returned shutdown(): where it stands
  pollStartTime, pollingInterval, server, webhookId,
  lastMessageTimeByRoom,
  \* one record per started pollMessages() call
  ticks,
  \* one entry per webhook POST, keyed by the id of the message it announces
  requests,
  \* one entry per other body POSTed to the webhook path: the response and
  \* what the handler did with it
  posts,
  \* one call of an operation of the WebexClient (api.ts)
  api,
  \* observations
  dispatched,     \* per path and MessageSid, the number of dispatchReply... calls
  fetched,        \* ids of the messages some listMessages call has returned to a tick
  calls,          \* the remote webhook calls issued, in order: [op, id, run]
  run             \* which run of monitorWebexProvider this is (1 = the first)

vars == << mode, groupPolicy, botRooms, now, messages, remoteWebhooks, phase, pollStartTime,
           pollingInterval, server, webhookId, lastMessageTimeByRoom, ticks,
           requests, dispatched, fetched, calls, run, envToken, configToken,
           credentials, posts, api, configMode, enabled, probe, abortSignal, again >>

configVars == << enabled, configMode, mode, groupPolicy, botRooms, envToken, configToken >>
remoteMsgVars == << now, messages >>
signalVars == << abortSignal, again >>
lifeVars == << phase, credentials, probe, signalVars, pollStartTime, pollingInterval, server,
               webhookId, calls, remoteWebhooks, run >>
pollVars == << lastMessageTimeByRoom, ticks, fetched >>

\* ----------------------------------------------------------------- helpers
Max(a, b) == IF a >= b THEN a ELSE b

\* Math.max(lastTime, messageTime)
MathMax(lastTime, messageTime) == Max(lastTime, messageTime)

Range(s) == { s[i] : i \in 1..Len(s) }

RECURSIVE Reverse(_)
Reverse(s) == IF s = << >> THEN << >> ELSE Append(Reverse(Tail(s)), Head(s))

\* The first n elements of s (all of s when it is shorter).
Take(s, n) == SubSeq(s, 1, IF Len(s) < n THEN Len(s) ELSE n)

\* No entry of the Map: Map.get gives undefined. Stored times are >= 1.
Absent == 0

\* A monitor that opens the webhook side in every mode.
enableWebhookAlways == TRUE

enableWebhook == mode = "webhook" \/ mode = "both"
enablePolling == mode = "polling" \/ mode = "both"

\* ---------------------------------------------------------------- token.ts
\* Token strings are sequences of characters, one of them a blank.
TokenChars == {" ", "a"}
\* The environment variable is not set / the configuration has no botToken.
NoToken == << "undefined" >>
Tokens == {NoToken} \cup UNION { [1..n -> TokenChars] : n \in 0..MaxTokenLen }

RECURSIVE TrimStart(_)
TrimStart(str) ==
  IF str # << >> /\ Head(str) = " " THEN TrimStart(Tail(str)) ELSE str

\* String.prototype.trim()
Trim(str) == Reverse(TrimStart(Reverse(TrimStart(str))))

\* token?.trim()
OptionalTrim(token) == IF token = NoToken THEN NoToken ELSE Trim(token)

\* The value passes `if (token)`: neither undefined nor the empty string.
Truthy(token) == token # NoToken /\ token # << >>

\* resolveWebexCredentials has not been called yet / has returned null.
Unresolved == [state |-> "unresolved", botToken |-> NoToken]
NoCredentials == [state |-> "null", botToken |-> NoToken]

\* A resolution that checks the configuration first.
resolveWebexCredentialsConfigFirst(env, cfg) ==
  IF Truthy(OptionalTrim(cfg)) THEN [state |-> "resolved", botToken |-> OptionalTrim(cfg)]
  ELSE IF Truthy(OptionalTrim(env)) THEN [state |-> "resolved", botToken |-> OptionalTrim(env)]
  ELSE NoCredentials

\* resolveWebexCredentials(cfg), with process.env.WEBEX_BOT_TOKEN = env and
\* cfg.channels.webex.botToken = cfg
resolveWebexCredentials(env, cfg) ==
  LET envToken_ == OptionalTrim(env)
      configToken_ == OptionalTrim(cfg)
  IN  IF Truthy(envToken_) THEN [state |-> "resolved", botToken |-> envToken_]
      ELSE IF Truthy(configToken_) THEN [state |-> "resolved", botToken |-> configToken_]
      ELSE NoCredentials

\* probe.ts: const token = botToken || envToken, both trimmed, with
\* botToken = webexConfig?.botToken and envToken = process.env.WEBEX_BOT_TOKEN
probeToken(env, cfg) ==
  LET botToken == OptionalTrim(cfg)
      envToken_ == OptionalTrim(env)
  IN  IF Truthy(botToken) THEN botToken ELSE envToken_

\* probeWebex has not been called yet.
NoProbe == [state |-> "none", token |-> NoToken]

\* ------------------------------------------------------------------ api.ts
\* The public operations of WebexClient.
ApiOps == {"getMe", "getPerson", "listMessages", "listDirectMessages", "getMessage",
           "createMessage", "deleteMessage", "listRooms", "getRoom", "listWebhooks",
           "createWebhook", "updateWebhook", "deleteWebhook"}
\* The operations declared Promise<void>: they await the request and return
\* nothing.
VoidOps == {"deleteMessage", "deleteWebhook"}

\* Status codes of the responses explored.
Statuses == {200, 201, 204, 304, 401, 404, 429, 500}
\* response.headers.get("TrackingID"): null when the header is missing.
TrackingIds == {"null", "TRK-1"}
\* Response bodies: text that is not JSON, the JSON null, and JSON objects
\* with or without a message and an error property.
ResponseBodies ==
  [kind : {"notJson", "null"}, message : {Undefined}, error : {Undefined}]
  \cup [kind : {"object"}, message : {Undefined, "", "Not Found"},
                           error : {Undefined, "rate limited"}]
Responses == [status : Statuses, trackingId : TrackingIds, body : ResponseBodies]
NoResponse ==
  [status |-> 0, trackingId |-> "null",
   body |-> [kind |-> "notJson", message |-> Undefined, error |-> Undefined]]

\* How the promise of an operation has settled: not yet, with a value, or
\* with an error. statusCode 0 is an error without the property.
NoResult ==
  [kind |-> "none", value |-> "none", message |-> Undefined, statusCode |-> 0,
   trackingId |-> Undefined]
ApiIdle == [pc |-> "idle", op |-> "none", fetches |-> 0, response |-> NoResponse,
            result |-> NoResult]

\* response.ok
ResponseOk(status) == status \in 200..299

\* What the operation resolves to when its request resolves to value.
ResolvedValue(op, value) ==
  [NoResult EXCEPT !.kind = "value", !.value = IF op \in VoidOps THEN "void" ELSE value]

\* An error thrown by fetch or by response.json(): no statusCode on it.
PlainError(message) == [NoResult EXCEPT !.kind = "error", !.message = message]

\* An operation is called: request() runs up to `await fetch(url, options)`.
ApiCall(op) ==
  /\ api.pc \in {"idle", "returned", "threw"}
  /\ api' = [ApiIdle EXCEPT !.pc = "fetch", !.op = op, !.fetches = 1]
  /\ UNCHANGED << configVars, remoteMsgVars, lifeVars, pollVars, requests, posts, dispatched >>

\* A request that fetches again after a 429 or a 5xx, up to three times.
FetchSettlesRetrying(response) ==
  /\ api.pc = "fetch"
  /\ IF response.status \in {429, 500} /\ api.fetches < 3
       THEN api' = [api EXCEPT !.fetches = @ + 1]
       ELSE api' = [api EXCEPT !.response = response,
                               !.pc = IF ~ResponseOk(response.status) THEN "errorJson"
                                      ELSE IF response.status = 204 THEN "returned"
                                      ELSE "json",
                               !.result = IF response.status = 204
                                            THEN ResolvedValue(api.op, "empty")
                                            ELSE NoResult]
  /\ UNCHANGED << configVars, remoteMsgVars, lifeVars, pollVars, requests, posts, dispatched >>

\* await fetch(...) resolves with a response: a response that is not ok goes
\* on to read the error body, a 204 returns {}, any other returns
\* response.json().
FetchSettles(response) ==
  /\ api.pc = "fetch"
  /\ api' = [api EXCEPT !.response = response,
                        !.pc = IF ~ResponseOk(response.status) THEN "errorJson"
                               ELSE IF response.status = 204 THEN "returned"
                               ELSE "json",
                        !.result = IF response.status = 204
                                     THEN ResolvedValue(api.op, "empty")
                                     ELSE NoResult]
  /\ UNCHANGED << configVars, remoteMsgVars, lifeVars, pollVars, requests, posts, dispatched >>

\* await fetch(...) rejects (no connection): the rejection is the operation's.
FetchRejects ==
  /\ api.pc = "fetch"
  /\ api' = [api EXCEPT !.pc = "threw", !.result = PlainError("fetch failed")]
  /\ UNCHANGED << configVars, remoteMsgVars, lifeVars, pollVars, requests, posts, dispatched >>

\* A request that logs the failure and resolves to {}.
ErrorJsonSettlesSwallowed ==
  /\ api.pc = "errorJson"
  /\ api' = [api EXCEPT !.pc = "returned", !.result = ResolvedValue(api.op, "empty")]
  /\ UNCHANGED << configVars, remoteMsgVars, lifeVars, pollVars, requests, posts, dispatched >>

\* await response.json() of a response that is not ok settles: the message
\* is taken from the body when it parses to an object that has one (a body
\* that does not parse, and null, whose property access throws, leave
\* `HTTP <status>`); the error is thrown with statusCode and trackingId.
ErrorJsonSettles ==
  LET r == api.response
      errorMessage == "HTTP " \o ToString(r.status)
      message == IF r.body.kind = "object"
                   THEN OrElse(r.body.message, OrElse(r.body.error, errorMessage))
                   ELSE errorMessage
  IN
  /\ api.pc = "errorJson"
  /\ api' = [api EXCEPT !.pc = "threw",
                        !.result = [NoResult EXCEPT
                           !.kind = "error",
                           !.message = message,
                           !.statusCode = r.status,
                           !.trackingId = IF r.trackingId = "null" THEN Undefined
                                          ELSE r.trackingId]]
  /\ UNCHANGED << configVars, remoteMsgVars, lifeVars, pollVars, requests, posts, dispatched >>

\* `return response.json()` of an ok response settles: the parsed body, or
\* the SyntaxError of a body that is not JSON.
JsonSettles ==
  /\ api.pc = "json"
  /\ IF api.response.body.kind = "notJson"
       THEN api' = [api EXCEPT !.pc = "threw", !.result = PlainError("Unexpected token")]
       ELSE api' = [api EXCEPT !.pc = "returned", !.result = ResolvedValue(api.op, "body")]
  /\ UNCHANGED << configVars, remoteMsgVars, lifeVars, pollVars, requests, posts, dispatched >>

\* ------------------------------------------------------------- inbound.ts
\* A filter that recognises no sender as the bot.
isWebexBotMessageNever(personEmail, botEmail) == FALSE

\* isWebexBotMessage(event, botEmail)
isWebexBotMessage(personEmail, botEmail) == personEmail = botEmail

\* data.mentionedPeople when the event carries none.
NoPeople == << Undefined >>
\* data.mentionedPeople on the wire: absent, empty, or a list of person ids.
MentionedPeople == {NoPeople, << >>, << OtherId >>, << BotId >>, << OtherId, BotId >>}

\* fullMessage.text and fullMessage.markdown: a message of files only has neither.
Texts == {Undefined, "", "hello"}
Markdowns == {Undefined, "**hello**"}

\* A mention check for which any mention is a mention of the bot.
wasWebexBotMentionedAny(event, botId) ==
  LET mentionedPeople == IF event.data.mentionedPeople = NoPeople THEN << >>
                         ELSE event.data.mentionedPeople
  IN  mentionedPeople # << >>

\* wasWebexBotMentioned(event, botId):
\*   const mentionedPeople = event.data.mentionedPeople || [];
\*   return mentionedPeople.includes(botId);
wasWebexBotMentioned(event, botId) ==
  LET mentionedPeople == IF event.data.mentionedPeople = NoPeople THEN << >>
                         ELSE event.data.mentionedPeople
  IN  botId \in Range(mentionedPeople)

\* A normalizer that gives every message the id of the first one.
parseWebexWebhookEventFirstId(event, fullMessage, botId) ==
  [ messageId      |-> 1,
    roomId         |-> event.data.roomId,
    roomType       |-> IF event.data.roomType = "direct" THEN "direct" ELSE "group",
    personEmail    |-> event.data.personEmail,
    created        |-> event.data.created,
    text           |-> fullMessage.text,
    markdown       |-> fullMessage.markdown,
    isBotMentioned |-> wasWebexBotMentioned(event, botId) ]

\* A normalizer for which every room that is not a group room is direct.
parseWebexWebhookEventDirectDefault(event, fullMessage, botId) ==
  [ messageId      |-> event.data.id,
    roomId         |-> event.data.roomId,
    roomType       |-> IF event.data.roomType = "group" THEN "group" ELSE "direct",
    personEmail    |-> event.data.personEmail,
    created        |-> event.data.created,
    text           |-> fullMessage.text,
    markdown       |-> fullMessage.markdown,
    isBotMentioned |-> wasWebexBotMentioned(event, botId) ]

\* parseWebexWebhookEvent(event, fullMessage, botId): text and markdown are
\* fullMessage?.text and fullMessage?.markdown as they come; files, personId and
\* mentionedPeople are copied and not modelled.
parseWebexWebhookEvent(event, fullMessage, botId) ==
  [ messageId      |-> event.data.id,
    roomId         |-> event.data.roomId,
    roomType       |-> IF event.data.roomType = "direct" THEN "direct" ELSE "group",
    personEmail    |-> event.data.personEmail,
    created        |-> event.data.created,
    text           |-> fullMessage.text,
    markdown       |-> fullMessage.markdown,
    isBotMentioned |-> wasWebexBotMentioned(event, botId) ]

\* A gate that lets every message through.
shouldProcessWebexMessageAlways(parsed, requireMentionInGroups) == TRUE

\* shouldProcessWebexMessage(parsed, requireMentionInGroups)
shouldProcessWebexMessage(parsed, requireMentionInGroups) ==
  IF parsed.roomType = "direct" THEN TRUE
  ELSE IF requireMentionInGroups THEN parsed.isBotMentioned
  ELSE TRUE

\* webexCfg.groupPolicy === "mention" || webexCfg.groupPolicy === "allowlist"
requireMentionInGroups == groupPolicy = "mention" \/ groupPolicy = "allowlist"

\* channel.ts groups.resolveRequireMention: groupPolicy ?? "allowlist"
resolveRequireMention ==
  LET policy == IF groupPolicy = Unset THEN "allowlist" ELSE groupPolicy
  IN  policy = "mention" \/ policy = "allowlist"

\* ---------------------------------------------------------- remote platform
\* The message with this id as getMessage and listMessages return it.
RemoteMessage(id) == [id |-> id] @@ messages[id]

\* The event the platform POSTs to the target url for a new message.
WebhookEvent(id) ==
  [resource |-> "messages", event |-> "created", data |-> RemoteMessage(id)]

\* The event the polling loop builds from a message listMessages returned.
PolledEvent(message) ==
  [ resource |-> "messages", event |-> "created",
    data |-> [ id          |-> message.id,
               roomId      |-> message.roomId,
               roomType    |-> message.roomType,
               personEmail |-> message.personEmail,
               created     |-> message.created,
               mentionedPeople |-> message.mentionedPeople ] ]

\* const parsed = parseWebexWebhookEvent(event, fullMessage, botId) in the
\* webhook handler, and parseWebexWebhookEvent(event, message, botId) in the
\* polling loop.
ParsedByWebhook(id) == parseWebexWebhookEvent(WebhookEvent(id), RemoteMessage(id), BotId)
ParsedByPoll(id) ==
  parseWebexWebhookEvent(PolledEvent(RemoteMessage(id)), RemoteMessage(id), BotId)

\* let text = parsed.text || parsed.markdown || "": the Body handed to the agent.
BodyOf(parsed) == OrElse(parsed.text, OrElse(parsed.markdown, ""))

\* Whether the platform lists the bot among the people message id mentions.
MentionsBot(id) == BotId \in Range(messages[id].mentionedPeople)

\* Ids of the messages of room r, oldest first.
IdsOfRoom(r) ==
  LET F[i \in 0..Len(messages)] ==
        IF i = 0 THEN << >>
        ELSE IF messages[i].roomId = r THEN Append(F[i - 1], i) ELSE F[i - 1]
  IN F[Len(messages)]

\* GET /messages?roomId=&max=: the room's most recent messages, newest first.
listMessages(r, max) == Take(Reverse(IdsOfRoom(r)), max)

\* Time of the last message of room r (0 when it has none).
LastActivity(r) ==
  LET ids == IdsOfRoom(r) IN
  IF ids = << >> THEN 0 ELSE messages[ids[Len(ids)]].created

\* GET /rooms?sortBy=lastactivity: most recently active room first.
listRooms ==
  IF botRooms = Rooms
    THEN IF LastActivity("grp") > LastActivity("dm") THEN << "grp", "dm" >>
         ELSE << "dm", "grp" >>
    ELSE IF botRooms = {} THEN << >> ELSE << CHOOSE r \in botRooms : TRUE >>

\* Subscriptions that may exist remotely before the first run.
PreMatching == [id |-> 1, targetUrl |-> WebhookUrl, resource |-> "messages", event |-> "created"]
PreOtherResource == [id |-> 2, targetUrl |-> WebhookUrl, resource |-> "rooms", event |-> "created"]
PreOtherUrl == [id |-> 3, targetUrl |-> OtherUrl, resource |-> "messages", event |-> "created"]
PreExisting == { {}, {PreMatching}, {PreOtherResource, PreOtherUrl} }

\* The subscription createWebhook registers in run n.
NewWebhook(n) ==
  [id |-> 10 + n, targetUrl |-> WebhookUrl, resource |-> "messages", event |-> "created"]

\* A user or the bot posts a message; the platform stamps it with its clock,
\* which has moved on or not since the previous event.
PostMessage(r, sender, mentioned, dt) ==
  /\ Len(messages) < MaxMsgs
  /\ now' = now + dt
  /\ messages' = Append(messages,
       [ roomId |-> r, roomType |-> RoomTypeOf(r), personEmail |-> sender,
         mentionedPeople |-> IF mentioned THEN << BotId >> ELSE NoPeople,
         text |-> "hello", markdown |-> Undefined, created |-> now' ])
  /\ UNCHANGED << configVars, lifeVars, pollVars, requests, posts, api, dispatched >>

\* The roomType a message may carry on the wire: the two the platform
\* documents, none, and one the code does not know.
RawRoomTypes == {"direct", "group", Undefined, "team"}

\* A message is posted and reaches the bot with the given roomType field.
PostRawMessage(r, roomType, sender, mentioned, dt) ==
  /\ Len(messages) < MaxMsgs
  /\ now' = now + dt
  /\ messages' = Append(messages,
       [ roomId |-> r, roomType |-> roomType, personEmail |-> sender,
         mentionedPeople |-> IF mentioned THEN << BotId >> ELSE NoPeople,
         text |-> "hello", markdown |-> Undefined, created |-> now' ])
  /\ UNCHANGED << configVars, lifeVars, pollVars, requests, posts, api, dispatched >>

\* A message is posted and reaches the bot with the given mentionedPeople, text
\* and markdown fields.
PostWireMessage(r, sender, mentionedPeople, text, markdown, dt) ==
  /\ Len(messages) < MaxMsgs
  /\ now' = now + dt
  /\ messages' = Append(messages,
       [ roomId |-> r, roomType |-> RoomTypeOf(r), personEmail |-> sender,
         mentionedPeople |-> mentionedPeople,
         text |-> text, markdown |-> markdown, created |-> now' ])
  /\ UNCHANGED << configVars, lifeVars, pollVars, requests, posts, api, dispatched >>

\* ------------------------------------------------------------ polling tick
NoTick == [pc |-> "idle", rooms |-> << >>, ri |-> 0, lastTime |-> 0, items |-> << >>, mi |-> 0]
DoneTick == [NoTick EXCEPT !.pc = "done"]

\* A lookup without the default: a room never seen starts at the epoch.
LastTimeOfNoDefault(map, r) == map[r]

\* lastMessageTimeByRoom.get(room.id) || pollStartTime
LastTimeOf(map, r) == IF map[r] # Absent THEN map[r] ELSE pollStartTime

\* The head of the for-loop over rooms.items: the tick is over after the last
\* room; otherwise it reads the room's watermark and awaits listMessages.
EnterRoom(rooms, i, map) ==
  IF i > Len(rooms) THEN DoneTick
  ELSE [pc |-> "listMessages", rooms |-> rooms, ri |-> i,
        lastTime |-> LastTimeOf(map, rooms[i]), items |-> << >>, mi |-> 0]

\* A loop body that skips the bot's messages and the gated-out ones without
\* touching the watermark.
RECURSIVE ProcessFromSkipsSilently(_, _, _)
ProcessFromSkipsSilently(t, j, map) ==
  IF j > Len(t.items) THEN [tick |-> EnterRoom(t.rooms, t.ri + 1, map), map |-> map]
  ELSE
    LET id == t.items[j]
        messageTime == messages[id].created
    IN  IF messageTime <= t.lastTime THEN ProcessFromSkipsSilently(t, j + 1, map)
        ELSE IF messages[id].personEmail = BotEmail THEN ProcessFromSkipsSilently(t, j + 1, map)
        ELSE IF ~shouldProcessWebexMessage(ParsedByPoll(id), requireMentionInGroups)
             THEN ProcessFromSkipsSilently(t, j + 1, map)
        ELSE [tick |-> [t EXCEPT !.pc = "recordMeta", !.mi = j], map |-> map]

\* The body of the for-loop over [...items].reverse(), run from item j until
\* the next await (the dispatch of a message) or the end of the list.
RECURSIVE ProcessFrom(_, _, _)
ProcessFrom(t, j, map) ==
  IF j > Len(t.items) THEN [tick |-> EnterRoom(t.rooms, t.ri + 1, map), map |-> map]
  ELSE
    LET id == t.items[j]
        room == t.rooms[t.ri]
        messageTime == messages[id].created
        advanced == [map EXCEPT ![room] = MathMax(t.lastTime, messageTime)]
    IN  IF messageTime <= t.lastTime THEN ProcessFrom(t, j + 1, map)
        ELSE IF messages[id].personEmail = BotEmail THEN ProcessFrom(t, j + 1, advanced)
        ELSE IF ~shouldProcessWebexMessage(ParsedByPoll(id), requireMentionInGroups)
             THEN ProcessFrom(t, j + 1, advanced)
        ELSE [tick |-> [t EXCEPT !.pc = "recordMeta", !.mi = j], map |-> map]

\* setInterval fires: void pollMessages(), which runs up to its first await.
TimerFires(k) ==
  /\ pollingInterval
  /\ k > 1
  /\ ticks[k].pc = "idle"
  /\ ticks[k - 1].pc # "idle"
  /\ ticks' = [ticks EXCEPT ![k].pc = "listRooms"]
  /\ UNCHANGED << configVars, remoteMsgVars, lifeVars, lastMessageTimeByRoom, fetched,
                  requests, posts, api, dispatched >>

\* setInterval fires once more, every pollMessages() call started so far being
\* over: the new call takes the record of an ended one.
TimerFiresAgain(k) ==
  /\ pollingInterval
  /\ \A j \in TickIds : ticks[j].pc = "done"
  /\ ticks' = [ticks EXCEPT ![k] = [NoTick EXCEPT !.pc = "listRooms"]]
  /\ UNCHANGED << configVars, remoteMsgVars, lifeVars, lastMessageTimeByRoom, fetched,
                  requests, posts, api, dispatched >>

\* await client.listRooms(...) returns, or throws into the outer catch.
ListRoomsReturns(k, ok) ==
  /\ ticks[k].pc = "listRooms"
  /\ IF ok
       THEN ticks' = [ticks EXCEPT ![k] = EnterRoom(listRooms, 1, lastMessageTimeByRoom)]
       ELSE ticks' = [ticks EXCEPT ![k] = DoneTick]
  /\ UNCHANGED << configVars, remoteMsgVars, lifeVars, lastMessageTimeByRoom, fetched,
                  requests, posts, api, dispatched >>

\* [...items].reverse() of what listMessages answers tick record t: oldest first.
ReversedItems(t) == Reverse(listMessages(t.rooms[t.ri], ListMax))

\* A loop over the rooms without the inner try/catch: listMessages throwing
\* ends the tick in the outer catch.
ListMessagesReturnsUncaught(k, ok) ==
  LET t == ticks[k] IN
  /\ t.pc = "listMessages"
  /\ IF ok
       THEN LET r == ProcessFrom([t EXCEPT !.items = ReversedItems(t)], 1, lastMessageTimeByRoom)
            IN  /\ ticks' = [ticks EXCEPT ![k] = r.tick]
                /\ lastMessageTimeByRoom' = r.map
                /\ fetched' = fetched \cup Range(ReversedItems(t))
       ELSE /\ ticks' = [ticks EXCEPT ![k] = DoneTick]
            /\ UNCHANGED << lastMessageTimeByRoom, fetched >>
  /\ UNCHANGED << configVars, remoteMsgVars, lifeVars, requests, posts, api, dispatched >>

\* await client.listMessages(...) returns, or throws into the room's catch.
ListMessagesReturns(k, ok) ==
  LET t == ticks[k] IN
  /\ t.pc = "listMessages"
  /\ IF ok
       THEN LET r == ProcessFrom([t EXCEPT !.items = ReversedItems(t)], 1, lastMessageTimeByRoom)
            IN  /\ ticks' = [ticks EXCEPT ![k] = r.tick]
                /\ lastMessageTimeByRoom' = r.map
                /\ fetched' = fetched \cup Range(ReversedItems(t))
       ELSE /\ ticks' = [ticks EXCEPT ![k] = EnterRoom(t.rooms, t.ri + 1, lastMessageTimeByRoom)]
            /\ UNCHANGED << lastMessageTimeByRoom, fetched >>
  /\ UNCHANGED << configVars, remoteMsgVars, lifeVars, requests, posts, api, dispatched >>

\* await recordSessionMetaFromInbound(...).catch(...) returns: the message is
\* handed to dispatchReplyWithBufferedBlockDispatcher.
PollDispatches(k) ==
  LET t == ticks[k] IN
  /\ t.pc = "recordMeta"
  /\ ticks' = [ticks EXCEPT ![k].pc = "dispatch"]
  /\ dispatched' = [dispatched EXCEPT !["poll"][ParsedByPoll(t.items[t.mi]).messageId] = @ + 1]
  /\ UNCHANGED << configVars, remoteMsgVars, lifeVars, lastMessageTimeByRoom, fetched,
                  requests, posts, api >>

\* await dispatchReply...(...) returns: the watermark is set and the loop goes
\* on; or it throws into the room's catch and the next room is entered.
DispatchReturns(k, ok) ==
  LET t == ticks[k] IN
  /\ t.pc = "dispatch"
  /\ IF ok
       THEN LET room == t.rooms[t.ri]
                messageTime == messages[t.items[t.mi]].created
                map == [lastMessageTimeByRoom EXCEPT ![room] = MathMax(t.lastTime, messageTime)]
                r == ProcessFrom(t, t.mi + 1, map)
            IN  /\ ticks' = [ticks EXCEPT ![k] = r.tick]
                /\ lastMessageTimeByRoom' = r.map
       ELSE /\ ticks' = [ticks EXCEPT ![k] = EnterRoom(t.rooms, t.ri + 1, lastMessageTimeByRoom)]
            /\ UNCHANGED lastMessageTimeByRoom
  /\ UNCHANGED << configVars, remoteMsgVars, lifeVars, fetched, requests, posts, api, dispatched >>

\* ------------------------------------------------- webhook request handler
\* The remote platform pushes a subscription's events to its target url.
Subscribed ==
  \E w \in remoteWebhooks :
     w.targetUrl = WebhookUrl /\ w.resource = "messages" /\ w.event = "created"

\* POST webhookPath: res.status(200).send("OK"), the two filters, and the call
\* of client.getMessage, all before the first await.
WebhookPost(id) ==
  /\ server = "listening"
  /\ Subscribed
  /\ id \in 1..Len(messages)
  /\ requests[id] = "none"
  /\ requests' = [requests EXCEPT ![id] =
       IF isWebexBotMessage(messages[id].personEmail, BotEmail) THEN "done" ELSE "getMessage"]
  /\ UNCHANGED << configVars, remoteMsgVars, lifeVars, pollVars, posts, api, dispatched >>

\* app.use(express.json()): a body that is not JSON never reaches the handler;
\* the parser's error is answered with 400.
expressJsonAccepts(b) == b # "malformed"

\* The parsed body of the other POSTs: an event of another resource, another
\* event of the messages resource, and a message event without its data.
EventOf(b) ==
  CASE b = "otherResource" -> [resource |-> "rooms", event |-> "created", hasData |-> TRUE]
    [] b = "otherEvent" -> [resource |-> "messages", event |-> "deleted", hasData |-> TRUE]
    [] b = "noData" -> [resource |-> "messages", event |-> "created", hasData |-> FALSE]

\* A filter that looks at the resource only.
isMessageCreatedResourceOnly(event) == event.resource = "messages"

\* !(event.resource !== "messages" || event.event !== "created")
isMessageCreated(event) == event.resource = "messages" /\ event.event = "created"

\* What the handler does with the event after res.status(200).send("OK"): it
\* returns at the filter; or event.data.personEmail throws on a missing data
\* and the catch logs "webhook error"; or it goes on to client.getMessage.
HandlerOutcome(event) ==
  IF ~isMessageCreated(event) THEN "filtered"
  ELSE IF ~event.hasData THEN "threw"
  ELSE "getMessage"

\* POST webhookPath with a body that announces no message of the platform.
WebhookPostOther(b) ==
  /\ server = "listening"
  /\ posts[b] = NotPosted
  /\ posts' = [posts EXCEPT ![b] =
       IF expressJsonAccepts(b)
         THEN [status |-> 200, outcome |-> HandlerOutcome(EventOf(b))]
         ELSE [status |-> 400, outcome |-> "rejected"]]
  /\ UNCHANGED << configVars, remoteMsgVars, lifeVars, pollVars, requests, dispatched, api >>

\* A handler without its try/catch: the rejection of getMessage is unhandled
\* and takes the process, and with it the server, down.
GetMessageReturnsUncaught(id, ok) ==
  /\ requests[id] = "getMessage"
  /\ IF ok
       THEN /\ requests' = [requests EXCEPT ![id] =
                 IF shouldProcessWebexMessage(ParsedByWebhook(id), requireMentionInGroups)
                 THEN "recordMeta" ELSE "done"]
            /\ UNCHANGED server
       ELSE /\ requests' = [requests EXCEPT ![id] = "done"]
            /\ server' = "closed"
  /\ UNCHANGED << configVars, remoteMsgVars, phase, credentials, probe, signalVars, pollStartTime,
                  pollingInterval, webhookId, calls, remoteWebhooks, run, pollVars, posts, api,
                  dispatched >>

\* await client.getMessage(messageId) returns (parse, gate, up to the next
\* await), or throws into the handler's catch.
GetMessageReturns(id, ok) ==
  /\ requests[id] = "getMessage"
  /\ IF ok
       THEN /\ requests' = [requests EXCEPT ![id] =
                 IF shouldProcessWebexMessage(ParsedByWebhook(id), requireMentionInGroups)
                 THEN "recordMeta" ELSE "done"]
       ELSE /\ requests' = [requests EXCEPT ![id] = "done"]
  /\ UNCHANGED << configVars, remoteMsgVars, lifeVars, pollVars, posts, api, dispatched >>

\* await recordSessionMetaFromInbound(...).catch(...) returns: the message is
\* handed to dispatchReplyWithBufferedBlockDispatcher.
WebhookDispatches(id) ==
  /\ requests[id] = "recordMeta"
  /\ requests' = [requests EXCEPT ![id] = "dispatch"]
  /\ dispatched' = [dispatched EXCEPT !["webhook"][ParsedByWebhook(id).messageId] = @ + 1]
  /\ UNCHANGED << configVars, remoteMsgVars, lifeVars, pollVars, posts, api >>

\* await dispatchReply...(...) returns or throws into the handler's catch.
WebhookDispatchReturns(id, ok) ==
  /\ requests[id] = "dispatch"
  /\ requests' = [requests EXCEPT ![id] = "done"]
  /\ UNCHANGED << configVars, remoteMsgVars, lifeVars, pollVars, posts, api, dispatched >>

\* ------------------------------------------------------ startup / shutdown
Null == 0

\* if (enablePolling) { ... void pollMessages(); setInterval(...) }, then the
\* return of { shutdown, mode }.
StartPolling ==
  /\ phase' = "running"
  /\ IF enablePolling
       THEN /\ pollingInterval' = TRUE
            /\ ticks' = [ticks EXCEPT ![1].pc = "listRooms"]
       ELSE UNCHANGED << pollingInterval, ticks >>

\* monitorWebexProvider up to the await of probeWebex: a provider that is not
\* enabled, or has no credentials, returns a no-op shutdown; else probeWebex
\* picks its token and calls getMe (or returns ok: false without a token).
Startup ==
  /\ phase = "start"
  /\ IF ~enabled
       THEN /\ phase' = "aborted"
            /\ UNCHANGED << credentials, probe >>
       ELSE /\ credentials' = resolveWebexCredentials(envToken, configToken)
            /\ IF credentials' = NoCredentials
                 THEN /\ phase' = "aborted"
                      /\ UNCHANGED probe
                 ELSE LET token == probeToken(envToken, configToken) IN
                      /\ phase' = "probe"
                      /\ probe' = [state |-> IF Truthy(token) THEN "getMe" ELSE "noToken",
                                   token |-> token]
  /\ UNCHANGED << configVars, remoteMsgVars, signalVars, pollStartTime, pollingInterval, server,
                  webhookId, calls, remoteWebhooks, run, pollVars, requests, posts, api,
                  dispatched >>

\* A startup that goes on whatever the probe returned.
ProbeReturnsIgnored(ok, listens) ==
  /\ phase = "probe"
  /\ probe' = [probe EXCEPT !.state = IF probe.state = "getMe" /\ ok THEN "ok" ELSE "failed"]
  /\ pollStartTime' = now
  /\ IF enableWebhook /\ listens
       THEN /\ server' = "listening"
            /\ phase' = "listWebhooks"
            /\ calls' = Append(calls, [op |-> "listWebhooks", id |-> Null, run |-> run])
            /\ UNCHANGED << pollingInterval, ticks >>
       ELSE IF mode = "webhook"
         THEN /\ phase' = "aborted"
              /\ UNCHANGED << server, calls, pollingInterval, ticks >>
         ELSE /\ StartPolling
              /\ UNCHANGED << server, calls >>
  /\ UNCHANGED << configVars, remoteMsgVars, credentials, signalVars, webhookId, remoteWebhooks,
                  run, lastMessageTimeByRoom, fetched, requests, posts, api, dispatched >>

\* await probeWebex(webexCfg) returns, up to the next await: when the probe
\* failed (getMe threw, or there was no token) a no-op shutdown is returned;
\* else the client is made, the poll start time is taken, and with a webhook
\* mode the server listens and listWebhooks is called. When app.listen throws,
\* webhook mode returns a no-op shutdown and "both" mode goes on to polling.
ProbeReturns(ok, listens) ==
  /\ phase = "probe"
  /\ probe' = [probe EXCEPT !.state = IF probe.state = "getMe" /\ ok THEN "ok" ELSE "failed"]
  /\ IF probe'.state = "failed"
       THEN /\ phase' = "aborted"
            /\ UNCHANGED << pollStartTime, server, calls, pollingInterval, ticks >>
       ELSE /\ pollStartTime' = now
            /\ IF enableWebhook /\ listens
                 THEN /\ server' = "listening"
                      /\ phase' = "listWebhooks"
                      /\ calls' = Append(calls, [op |-> "listWebhooks", id |-> Null, run |-> run])
                      /\ UNCHANGED << pollingInterval, ticks >>
                 ELSE IF mode = "webhook"
                   THEN /\ phase' = "aborted"
                        /\ UNCHANGED << server, calls, pollingInterval, ticks >>
                   ELSE /\ StartPolling
                        /\ UNCHANGED << server, calls >>
  /\ UNCHANGED << configVars, remoteMsgVars, credentials, signalVars, webhookId, remoteWebhooks,
                  run, lastMessageTimeByRoom, fetched, requests, posts, api, dispatched >>

\* A lookup that finds no existing subscription, so that every startup
\* creates one.
FindExistingNone(items) == {}

\* existingWebhooks.items.find(wh => wh.targetUrl === webhookUrl && wh.resource === "messages")
FindExisting(items) ==
  { wh \in items : wh.targetUrl = WebhookUrl /\ wh.resource = "messages" }

\* A registration whose failure is rethrown: webhook-only mode gives up with
\* a no-op shutdown, "both" mode goes on to polling.
ListWebhooksReturnsFatal(ok) ==
  /\ phase = "listWebhooks"
  /\ IF ok
       THEN LET existing == FindExisting(remoteWebhooks) IN
            IF existing # {}
              THEN /\ \E wh \in existing : webhookId' = wh.id
                   /\ StartPolling
                   /\ UNCHANGED calls
              ELSE /\ phase' = "createWebhook"
                   /\ calls' = Append(calls, [op |-> "createWebhook", id |-> Null, run |-> run])
                   /\ UNCHANGED << webhookId, pollingInterval, ticks >>
       ELSE /\ IF mode = "webhook"
                 THEN phase' = "aborted" /\ UNCHANGED << pollingInterval, ticks >>
                 ELSE StartPolling
            /\ UNCHANGED << webhookId, calls >>
  /\ UNCHANGED << configVars, remoteMsgVars, credentials, probe, signalVars, pollStartTime, server,
                  remoteWebhooks, run, lastMessageTimeByRoom, fetched, requests, posts, api,
                  dispatched >>

\* await client.listWebhooks() returns: an existing subscription is reused,
\* or createWebhook is called; or it throws into the registration's catch.
ListWebhooksReturns(ok) ==
  /\ phase = "listWebhooks"
  /\ IF ok
       THEN LET existing == FindExisting(remoteWebhooks) IN
            IF existing # {}
              THEN /\ \E wh \in existing : webhookId' = wh.id
                   /\ StartPolling
                   /\ UNCHANGED calls
              ELSE /\ phase' = "createWebhook"
                   /\ calls' = Append(calls, [op |-> "createWebhook", id |-> Null, run |-> run])
                   /\ UNCHANGED << webhookId, pollingInterval, ticks >>
       ELSE /\ StartPolling
            /\ UNCHANGED << webhookId, calls >>
  /\ UNCHANGED << configVars, remoteMsgVars, credentials, probe, signalVars, pollStartTime, server,
                  remoteWebhooks, run, lastMessageTimeByRoom, fetched, requests, posts, api,
                  dispatched >>

\* await client.createWebhook(...) returns or throws into the registration's
\* catch; either way startup goes on.
CreateWebhookReturns(ok) ==
  /\ phase = "createWebhook"
  /\ IF ok
       THEN /\ remoteWebhooks' = remoteWebhooks \cup {NewWebhook(run)}
            /\ webhookId' = NewWebhook(run).id
       ELSE UNCHANGED << remoteWebhooks, webhookId >>
  /\ StartPolling
  /\ UNCHANGED << configVars, remoteMsgVars, credentials, probe, signalVars, pollStartTime, server, calls, run,
                  lastMessageTimeByRoom, fetched, requests, posts, api, dispatched >>

\* server.close(...) is called when there is a server; else shutdown is over.
CloseServer ==
  IF server # "none"
    THEN phase' = "closing" /\ server' = "closed"
    ELSE phase' = "stopped" /\ UNCHANGED server

\* A shutdown that leaves the timer running.
ShutdownKeepsTimer ==
  /\ phase = "running"
  /\ IF webhookId # Null
       THEN /\ phase' = "deleteWebhook"
            /\ calls' = Append(calls, [op |-> "deleteWebhook", id |-> webhookId, run |-> run])
            /\ UNCHANGED server
       ELSE /\ CloseServer
            /\ UNCHANGED calls
  /\ UNCHANGED << configVars, remoteMsgVars, credentials, probe, signalVars, pollStartTime, pollingInterval,
                  webhookId, remoteWebhooks, run, pollVars, requests, posts, api, dispatched >>

\* shutdown() up to its first await: the timer is cleared, and deleteWebhook
\* is called when webhookId is set.
Shutdown ==
  /\ phase = "running"
  /\ pollingInterval' = FALSE
  /\ IF webhookId # Null
       THEN /\ phase' = "deleteWebhook"
            /\ calls' = Append(calls, [op |-> "deleteWebhook", id |-> webhookId, run |-> run])
            /\ UNCHANGED server
       ELSE /\ CloseServer
            /\ UNCHANGED calls
  /\ UNCHANGED << configVars, remoteMsgVars, credentials, probe, signalVars, pollStartTime, webhookId, remoteWebhooks,
                  run, pollVars, requests, posts, api, dispatched >>

\* A shutdown without the try/catch around deleteWebhook: its rejection ends
\* shutdown before the server is closed.
DeleteWebhookReturnsThrows(ok) ==
  /\ phase = "deleteWebhook"
  /\ IF ok
       THEN /\ remoteWebhooks' = { w \in remoteWebhooks : w.id # webhookId }
            /\ CloseServer
       ELSE /\ phase' = "stopped"
            /\ UNCHANGED << remoteWebhooks, server >>
  /\ UNCHANGED << configVars, remoteMsgVars, credentials, probe, signalVars, pollStartTime, pollingInterval,
                  webhookId, calls, run, pollVars, requests, posts, api, dispatched >>

\* A shutdown that forgets the subscription id once it has deleted it.
DeleteWebhookReturnsClearsId(ok) ==
  /\ phase = "deleteWebhook"
  /\ IF ok
       THEN /\ remoteWebhooks' = { w \in remoteWebhooks : w.id # webhookId }
            /\ webhookId' = Null
       ELSE UNCHANGED << remoteWebhooks, webhookId >>
  /\ CloseServer
  /\ UNCHANGED << configVars, remoteMsgVars, credentials, probe, signalVars, pollStartTime, pollingInterval,
                  calls, run, pollVars, requests, posts, api, dispatched >>

\* await client.deleteWebhook(webhookId) returns or throws into its catch.
DeleteWebhookReturns(ok) ==
  /\ phase = "deleteWebhook"
  /\ IF ok
       THEN remoteWebhooks' = { w \in remoteWebhooks : w.id # webhookId }
       ELSE UNCHANGED remoteWebhooks
  /\ CloseServer
  /\ UNCHANGED << configVars, remoteMsgVars, credentials, probe, signalVars, pollStartTime, pollingInterval, webhookId,
                  calls, run, pollVars, requests, posts, api, dispatched >>

\* The callback of server.close runs: shutdown's promise resolves.
ServerClosed ==
  /\ phase = "closing"
  /\ phase' = "stopped"
  /\ UNCHANGED << configVars, remoteMsgVars, credentials, probe, signalVars, pollStartTime, pollingInterval, server,
                  webhookId, calls, remoteWebhooks, run, pollVars, requests, posts, api,
                  dispatched >>

\* abortSignal fires and its listeners run. abortHandler, which calls
\* shutdown(), is added when startup has come to its end and removed by
\* shutdown(): before and after, the signal has no listener of the monitor.
Abort ==
  /\ ~abortSignal
  /\ abortSignal' = TRUE
  /\ IF phase = "running"
       THEN /\ pollingInterval' = FALSE
            /\ IF webhookId # Null
                 THEN /\ phase' = "deleteWebhook"
                      /\ calls' = Append(calls,
                                     [op |-> "deleteWebhook", id |-> webhookId, run |-> run])
                      /\ UNCHANGED server
                 ELSE /\ CloseServer
                      /\ UNCHANGED calls
       ELSE UNCHANGED << phase, pollingInterval, calls, server >>
  /\ UNCHANGED << configVars, remoteMsgVars, credentials, probe, again, pollStartTime, webhookId,
                  remoteWebhooks, run, pollVars, requests, posts, api, dispatched >>

\* server.close(...) in a further call of shutdown().
CloseServerAgain ==
  IF server # "none"
    THEN again' = "closing" /\ server' = "closed"
    ELSE again' = "done" /\ UNCHANGED server

\* The returned shutdown is called once more, up to its first await: after an
\* early return of startup it is the no-op async () => {}; else the timer is
\* cleared, and deleteWebhook is called when webhookId is set.
ShutdownAgain ==
  /\ again = "none"
  /\ phase \in {"aborted", "deleteWebhook", "closing", "stopped"}
  /\ IF phase = "aborted"
       THEN /\ again' = "done"
            /\ UNCHANGED << pollingInterval, calls, server >>
       ELSE /\ pollingInterval' = FALSE
            /\ IF webhookId # Null
                 THEN /\ again' = "deleteWebhook"
                      /\ calls' = Append(calls,
                                     [op |-> "deleteWebhook", id |-> webhookId, run |-> run])
                      /\ UNCHANGED server
                 ELSE /\ CloseServerAgain
                      /\ UNCHANGED calls
  /\ UNCHANGED << configVars, remoteMsgVars, phase, credentials, probe, abortSignal, pollStartTime,
                  webhookId, remoteWebhooks, run, pollVars, requests, posts, api, dispatched >>

\* await client.deleteWebhook(webhookId) of the further call returns or throws
\* into its catch.
DeleteWebhookReturnsAgain(ok) ==
  /\ again = "deleteWebhook"
  /\ IF ok
       THEN remoteWebhooks' = { w \in remoteWebhooks : w.id # webhookId }
       ELSE UNCHANGED remoteWebhooks
  /\ CloseServerAgain
  /\ UNCHANGED << configVars, remoteMsgVars, phase, credentials, probe, abortSignal, pollStartTime,
                  pollingInterval, webhookId, calls, run, pollVars, requests, posts, api,
                  dispatched >>

\* The callback of server.close of the further call runs.
ServerClosedAgain ==
  /\ again = "closing"
  /\ again' = "done"
  /\ UNCHANGED << configVars, remoteMsgVars, phase, credentials, probe, abortSignal, pollStartTime,
                  pollingInterval, server, webhookId, calls, remoteWebhooks, run, pollVars,
                  requests, posts, api, dispatched >>

\* --------------------------------------------------------------- the system
InitRun ==
  /\ phase = "start"
  /\ pollStartTime = 0
  /\ pollingInterval = FALSE
  /\ server = "none"
  /\ webhookId = Null
  /\ lastMessageTimeByRoom = [r \in Rooms |-> Absent]
  /\ ticks = [k \in TickIds |-> NoTick]
  /\ fetched = {}
  /\ requests = [id \in MsgIds |-> "none"]
  /\ credentials = Unresolved
  /\ probe = NoProbe
  /\ abortSignal = FALSE
  /\ again = "none"
  /\ posts = [b \in Bodies |-> NotPosted]
  /\ dispatched = [p \in Paths |-> [id \in MsgIds |-> 0]]

Init ==
  /\ enabled \in BOOLEAN
  /\ configMode \in ConfigModes
  /\ mode = OrElse(configMode, "webhook")
  /\ groupPolicy \in GroupPolicies
  /\ envToken \in Tokens
  /\ configToken \in Tokens
  /\ botRooms \in RoomSets
  /\ now = 1
  /\ messages = << >>
  /\ remoteWebhooks \in PreExisting
  /\ calls = << >>
  /\ run = 1
  /\ api = ApiIdle
  /\ InitRun

Environment ==
  \E r \in botRooms, sender \in Senders, mentioned \in BOOLEAN, dt \in {0, 1} :
     /\ (r = "dm" => ~mentioned)
     /\ PostMessage(r, sender, mentioned, dt)

\* The same with every roomType on the wire; a direct room has no mentions.
EnvironmentRaw ==
  \E r \in botRooms, roomType \in RawRoomTypes, sender \in Senders, mentioned \in BOOLEAN,
     dt \in {0, 1} :
     /\ (r = "dm") = (roomType = "direct")
     /\ (r = "dm" => ~mentioned)
     /\ PostRawMessage(r, roomType, sender, mentioned, dt)

\* Messages of a group room with every mentionedPeople, text and markdown on
\* the wire.
EnvironmentWire ==
  \E sender \in Senders, mentionedPeople \in MentionedPeople, text \in Texts,
     markdown \in Markdowns :
     /\ "grp" \in botRooms
     /\ PostWireMessage("grp", sender, mentionedPeople, text, markdown, 1)

Polling ==
  \/ \E k \in TickIds : TimerFires(k)
  \/ \E k \in TickIds, ok \in BOOLEAN : ListRoomsReturns(k, ok)
  \/ \E k \in TickIds, ok \in BOOLEAN : ListMessagesReturns(k, ok)
  \/ \E k \in TickIds : PollDispatches(k)
  \/ \E k \in TickIds, ok \in BOOLEAN : DispatchReturns(k, ok)

Webhook ==
  \/ \E id \in MsgIds : WebhookPost(id)
  \/ \E id \in MsgIds, ok \in BOOLEAN : GetMessageReturns(id, ok)
  \/ \E id \in MsgIds : WebhookDispatches(id)
  \/ \E id \in MsgIds, ok \in BOOLEAN : WebhookDispatchReturns(id, ok)

Http == \E b \in Bodies : WebhookPostOther(b)

Api ==
  \/ \E op \in ApiOps : ApiCall(op)
  \/ \E response \in Responses : FetchSettles(response)
  \/ FetchRejects
  \/ ErrorJsonSettles
  \/ JsonSettles

Lifecycle ==
  \/ Startup
  \/ \E ok \in BOOLEAN, listens \in BOOLEAN : ProbeReturns(ok, listens)
  \/ \E ok \in BOOLEAN : ListWebhooksReturns(ok)
  \/ \E ok \in BOOLEAN : CreateWebhookReturns(ok)
  \/ Shutdown
  \/ \E ok \in BOOLEAN : DeleteWebhookReturns(ok)
  \/ ServerClosed

Signal ==
  \/ Abort
  \/ ShutdownAgain
  \/ \E ok \in BOOLEAN : DeleteWebhookReturnsAgain(ok)
  \/ ServerClosedAgain

\* The process dies (a crash, or its exit after shutdown) and is started
\* again with the same configuration: the closure's state is gone, the remote
\* platform's is not.
Restart ==
  /\ phase # "start"
  /\ run < MaxRuns
  /\ run' = run + 1
  /\ phase' = "start"
  /\ pollStartTime' = 0
  /\ pollingInterval' = FALSE
  /\ server' = "none"
  /\ webhookId' = Null
  /\ lastMessageTimeByRoom' = [r \in Rooms |-> Absent]
  /\ ticks' = [k \in TickIds |-> NoTick]
  /\ fetched' = {}
  /\ requests' = [id \in MsgIds |-> "none"]
  /\ credentials' = Unresolved
  /\ probe' = NoProbe
  /\ abortSignal' = FALSE
  /\ again' = "none"
  /\ posts' = [b \in Bodies |-> NotPosted]
  /\ dispatched' = [p \in Paths |-> [id \in MsgIds |-> 0]]
  /\ UNCHANGED << configVars, remoteMsgVars, remoteWebhooks, calls, api >>

Next ==
  \/ Environment \/ EnvironmentRaw \/ EnvironmentWire \/ Polling \/ Webhook \/ Http \/ Api
  \/ (\E k \in TickIds : TimerFiresAgain(k))
  \/ Lifecycle \/ Signal \/ Restart

\* Every configuration, every action.
Spec == Init /\ [][Next]_vars

\* The provider is enabled, the token comes from the configuration, the
\* environment has none; the mode is spelled out in the configuration.
TokenInConfig ==
  enabled /\ envToken = NoToken /\ configToken = << "a" >> /\ configMode = mode

\* Spec restricted to one mode (and to the actions that mode enables), so
\* that TLC can exhaust it; each behaviour below is a behaviour of Spec.

\* Polling mode, the bot in both rooms.
InitPoll == Init /\ TokenInConfig /\ mode = "polling" /\ botRooms = Rooms /\ remoteWebhooks = {}
NextPoll == Environment \/ Polling \/ Startup \/ ProbeReturns(TRUE, TRUE) \/ Shutdown
SpecPoll == InitPoll /\ [][NextPoll]_vars

\* The same with no remote call failing.
PollingOk ==
  \/ \E k \in TickIds : TimerFires(k)
  \/ \E k \in TickIds : ListRoomsReturns(k, TRUE)
  \/ \E k \in TickIds : ListMessagesReturns(k, TRUE)
  \/ \E k \in TickIds : PollDispatches(k)
  \/ \E k \in TickIds : DispatchReturns(k, TRUE)
NextPollOk == Environment \/ PollingOk \/ Startup \/ ProbeReturns(TRUE, TRUE) \/ Shutdown
SpecPollOk == InitPoll /\ [][NextPollOk]_vars

\* The same with no remote call failing and no tick started before the
\* previous one has ended.
PollingSeq ==
  \/ \E k \in TickIds \ {1} : ticks[k - 1].pc = "done" /\ TimerFires(k)
  \/ \E k \in TickIds : ListRoomsReturns(k, TRUE)
  \/ \E k \in TickIds : ListMessagesReturns(k, TRUE)
  \/ \E k \in TickIds : PollDispatches(k)
  \/ \E k \in TickIds : DispatchReturns(k, TRUE)
NextPollSeq == Environment \/ PollingSeq \/ Startup \/ ProbeReturns(TRUE, TRUE) \/ Shutdown
SpecPollSeq == InitPoll /\ [][NextPollSeq]_vars

\* Polling mode with no tick started before the previous one has ended, and
\* every remote call and every dispatch failing or not.
PollingSeqFailing ==
  \/ \E k \in TickIds \ {1} : ticks[k - 1].pc = "done" /\ TimerFires(k)
  \/ \E k \in TickIds, ok \in BOOLEAN : ListRoomsReturns(k, ok)
  \/ \E k \in TickIds, ok \in BOOLEAN : ListMessagesReturns(k, ok)
  \/ \E k \in TickIds : PollDispatches(k)
  \/ \E k \in TickIds, ok \in BOOLEAN : DispatchReturns(k, ok)
NextPollSeqFailing ==
  Environment \/ PollingSeqFailing \/ Startup \/ ProbeReturns(TRUE, TRUE) \/ Shutdown
SpecPollSeqFailing == InitPoll /\ [][NextPollSeqFailing]_vars

\* Polling mode in one group room for as long as the timer runs: no call fails, no tick is
\* started before the previous one has ended, the timer fires again and again
\* and nobody calls shutdown. The timer and the continuations of a tick's
\* awaits are what the event loop runs whenever it can; when messages are
\* posted is up to the users.
PollingForever ==
  \/ PollingSeq
  \/ \E k \in TickIds : TimerFiresAgain(k)
InitPollForever ==
  /\ Init /\ TokenInConfig
  /\ mode = "polling" /\ groupPolicy = "mention" /\ botRooms = {"grp"} /\ remoteWebhooks = {}
NextPollForever == Environment \/ PollingForever \/ Startup \/ ProbeReturns(TRUE, TRUE)
SpecPollForever == InitPollForever /\ [][NextPollForever]_vars
FairPoll ==
  SpecPollForever /\ WF_vars(PollingForever) /\ WF_vars(Startup \/ ProbeReturns(TRUE, TRUE))

\* Webhook mode, the bot in both rooms.
InitWebhook == Init /\ TokenInConfig /\ mode = "webhook" /\ botRooms = Rooms
NextWebhook == Environment \/ Webhook \/ Lifecycle
SpecWebhook == InitWebhook /\ [][NextWebhook]_vars

\* Both paths at once, the bot in one room, up to shutdown (which changes
\* nothing the two paths read or write but the timer and the listener).
InitBoth ==
  /\ Init /\ TokenInConfig
  /\ mode = "both" /\ Cardinality(botRooms) = 1 /\ remoteWebhooks = {PreMatching}
NextBoth ==
  \/ Environment \/ Polling \/ Webhook
  \/ Startup \/ (\E listens \in BOOLEAN : ProbeReturns(TRUE, listens))
  \/ \E ok \in BOOLEAN : ListWebhooksReturns(ok)
SpecBoth == InitBoth /\ [][NextBoth]_vars

\* Webhook mode with every kind of body POSTed to the webhook path.
InitHttp ==
  /\ Init /\ TokenInConfig
  /\ mode = "webhook" /\ groupPolicy = "mention" /\ botRooms = {"grp"}
NextHttp == Environment \/ Webhook \/ Http \/ Lifecycle
SpecHttp == InitHttp /\ [][NextHttp]_vars

\* The resolution of the credentials at startup, for every pair of tokens.
InitToken ==
  Init /\ configMode = "polling" /\ groupPolicy = "open" /\ botRooms = Rooms /\ remoteWebhooks = {}
NextToken == Startup \/ (\E ok \in BOOLEAN, listens \in BOOLEAN : ProbeReturns(ok, listens))
SpecToken == InitToken /\ [][NextToken]_vars

\* Webhook mode under a policy that requires the mention, with messages of
\* every roomType, up to shutdown.
InitRaw ==
  /\ Init /\ TokenInConfig
  /\ mode = "webhook" /\ groupPolicy = "mention" /\ botRooms = Rooms
  /\ remoteWebhooks = {PreMatching}
NextRaw ==
  \/ EnvironmentRaw \/ Webhook
  \/ Startup \/ (\E listens \in BOOLEAN : ProbeReturns(TRUE, listens))
  \/ \E ok \in BOOLEAN : ListWebhooksReturns(ok)
SpecRaw == InitRaw /\ [][NextRaw]_vars

\* Webhook mode under a policy that requires the mention, with messages of
\* a group room carrying every mentionedPeople, text and markdown, up to
\* shutdown.
InitWire ==
  /\ Init /\ TokenInConfig
  /\ mode = "webhook" /\ groupPolicy = "mention" /\ botRooms = {"grp"}
  /\ remoteWebhooks = {PreMatching}
NextWire ==
  \/ EnvironmentWire \/ Webhook
  \/ Startup \/ (\E listens \in BOOLEAN : ProbeReturns(TRUE, listens))
  \/ \E ok \in BOOLEAN : ListWebhooksReturns(ok)
SpecWire == InitWire /\ [][NextWire]_vars

\* The operations of the API client, called one after the other, with every
\* response.
InitApi ==
  /\ Init /\ TokenInConfig
  /\ mode = "polling" /\ groupPolicy = "open" /\ botRooms = Rooms /\ remoteWebhooks = {}
NextApi == Api
SpecApi == InitApi /\ [][NextApi]_vars

\* Startup and shutdown for every value of the configuration's mode.
InitModes ==
  /\ Init /\ envToken = NoToken /\ configToken = << "a" >>
  /\ groupPolicy = "open" /\ botRooms = Rooms
NextModes == Lifecycle
SpecModes == InitModes /\ [][NextModes]_vars

\* Startup, registration, shutdown and restart in every mode, with no message
\* traffic.
InitRuns == Init /\ TokenInConfig /\ mode \in Modes /\ botRooms = Rooms
NextRuns == Lifecycle \/ Restart
SpecRuns == InitRuns /\ [][NextRuns]_vars

\* Startup and shutdown in every mode, enabled or not, with and without a
\* token, with the abort signal and a further call of shutdown; no message
\* traffic.
InitStop ==
  /\ Init /\ mode \in Modes /\ configMode = mode
  /\ envToken \in {NoToken, << "a" >>} /\ configToken \in {NoToken, << "a" >>}
  /\ groupPolicy = "open" /\ botRooms = Rooms
NextStop == Lifecycle \/ Signal
SpecStop == InitStop /\ [][NextStop]_vars

\* What the runtime does on its own once it can: the continuations of the
\* awaits of startup and of shutdown. Whether and when the signal fires, and
\* whether the returned shutdown is called, is up to the caller.
Continuations ==
  \/ Startup
  \/ \E ok \in BOOLEAN, listens \in BOOLEAN : ProbeReturns(ok, listens)
  \/ \E ok \in BOOLEAN : ListWebhooksReturns(ok)
  \/ \E ok \in BOOLEAN : CreateWebhookReturns(ok)
  \/ \E ok \in BOOLEAN : DeleteWebhookReturns(ok)
  \/ ServerClosed
  \/ \E ok \in BOOLEAN : DeleteWebhookReturnsAgain(ok)
  \/ ServerClosedAgain
FairStop == SpecStop /\ WF_vars(Continuations)

\* ------------------------------------------------------------------ claims
RoomOf(id) == messages[id].roomId
CreatedAt(id) == messages[id].created
Posted == 1..Len(messages)

\* No pollMessages() call is between its start and its end.
TicksQuiet == \A k \in TickIds : ticks[k].pc \in {"idle", "done"}
\* Two pollMessages() calls are in flight at once.
TicksOverlap ==
  \E j, k \in TickIds : j # k /\ ticks[j].pc \notin {"idle", "done"}
                              /\ ticks[k].pc \notin {"idle", "done"}

\* The largest createdAt among the messages of room r any tick has fetched
\* (0 when none was).
MaxSeen(r) ==
  LET seen == { CreatedAt(id) : id \in { i \in fetched : RoomOf(i) = r } } IN
  IF seen = {} THEN 0 ELSE CHOOSE t \in seen : \A u \in seen : u <= t

\* A message the polling loop is to dispatch: sent after the loop started, by
\* someone else than the bot, and passing the gate.
Eligible(id) ==
  /\ CreatedAt(id) > pollStartTime
  /\ messages[id].personEmail # BotEmail
  /\ shouldProcessWebexMessage(ParsedByPoll(id), requireMentionInGroups)

\* C1: no write to a room's watermark stores a value lower than the one the
\* entry held before, whatever ticks overlap.
C1_WatermarkMonotonic ==
  [][\A r \in Rooms : lastMessageTimeByRoom'[r] >= lastMessageTimeByRoom[r]]_vars

\* C2: no message id is handed to the dispatcher more than once in a run,
\* the webhook path and the polling path counted together.
C2_DispatchedAtMostOnce ==
  \A id \in MsgIds : dispatched["poll"][id] + dispatched["webhook"][id] <= 1

\* C3: once the room's watermark has reached the createdAt of a message the
\* polling loop has dispatched, no tick dispatches that message again.
C3_NoRedispatchBelowWatermark ==
  [][\A id \in Posted :
       (/\ dispatched["poll"][id] >= 1
        /\ lastMessageTimeByRoom[RoomOf(id)] >= CreatedAt(id))
       => dispatched'["poll"][id] = dispatched["poll"][id]]_vars

\* C4: when every tick has completed, each room's watermark is no less than
\* the largest createdAt any tick has seen in it.
C4_WatermarkIsMaxSeen ==
  TicksQuiet => \A r \in Rooms : LastTimeOf(lastMessageTimeByRoom, r) >= MaxSeen(r)

\* C5: when no tick is running, the watermark of a room is at or beyond the
\* createdAt of an eligible message some tick has fetched only if the polling
\* loop has dispatched that message.
C5_NoneSkippedForever ==
  TicksQuiet =>
    \A id \in fetched :
       (Eligible(id) /\ LastTimeOf(lastMessageTimeByRoom, RoomOf(id)) >= CreatedAt(id))
       => dispatched["poll"][id] >= 1

\* C6: the polling loop never dispatches a message of a room after it has
\* dispatched a message of that room with a larger createdAt.
C6_DispatchInCreationOrder ==
  [][\A id \in Posted :
       dispatched'["poll"][id] > dispatched["poll"][id]
       => \A newer \in Posted :
            (RoomOf(newer) = RoomOf(id) /\ CreatedAt(newer) > CreatedAt(id))
            => dispatched["poll"][newer] = 0]_vars

\* Registration was attempted (the server listens or listened) and startup
\* has gone past it without a subscription id: listWebhooks or createWebhook
\* threw.
RegistrationFailed ==
  /\ enableWebhook
  /\ server # "none"
  /\ phase \notin {"start", "listWebhooks", "createWebhook"}
  /\ webhookId = Null

\* C7: shutdown removes a remote subscription only if this run created it;
\* one that existed before the run and was reused is never deleted.
C7_DeletesOnlyOwnSubscription ==
  [][\A w \in remoteWebhooks : w \notin remoteWebhooks' => w.id = NewWebhook(run).id]_vars

\* C8: registration is idempotent. However often startup runs, the remote
\* platform never holds two subscriptions for (webhookUrl, "messages"):
\* createWebhook is in flight only while there is none, and a run that has
\* registered holds the id of the one there is. A run that finds the
\* subscription of an earlier run calls createWebhook no more and reuses its
\* id.
C8_RegistrationIdempotent ==
  /\ Cardinality(FindExisting(remoteWebhooks)) <= 1
  /\ phase = "createWebhook" => FindExisting(remoteWebhooks) = {}
  /\ (phase = "running" /\ webhookId # Null)
       => webhookId \in { w.id : w \in FindExisting(remoteWebhooks) }
  /\ \A n \in 1..(run - 1) :
        NewWebhook(n) \in remoteWebhooks
        => /\ \A i \in 1..Len(calls) :
                 calls[i].op = "createWebhook" => calls[i].run <= n
           /\ webhookId # Null => webhookId = NewWebhook(n).id

\* The second run has reused the subscription the first run created, and
\* createWebhook was called once over both runs.
C8_Witness ==
  /\ run = 2
  /\ phase = "running"
  /\ webhookId = NewWebhook(1).id
  /\ Cardinality({ i \in 1..Len(calls) : calls[i].op = "createWebhook" }) = 1

C10_SelfMessagesNeverDispatched ==
  \A id \in Posted :
     messages[id].personEmail = BotEmail
     => dispatched["poll"][id] = 0 /\ dispatched["webhook"][id] = 0

\* A message of the bot has been through both paths: a tick has fetched it
\* and the webhook request announcing it has ended.
C10_Witness ==
  \E id \in Posted :
     /\ messages[id].personEmail = BotEmail
     /\ id \in fetched
     /\ requests[id] = "done"
     /\ TicksQuiet

\* The decision table of the access policy gate.
GateTable(roomType, requireMention, mentionsBot) ==
  ~(roomType = "group" /\ requireMention /\ ~mentionsBot)

\* C11: shouldProcessWebexMessage returns false exactly for a group room with
\* the mention required and the bot not mentioned, and true otherwise; what
\* the webhook handler dispatches, and what it drops after getMessage, is
\* what the table says.
C11_GateTruthTable ==
  /\ \A roomType \in {"direct", "group"}, requireMention \in BOOLEAN, mentionsBot \in BOOLEAN :
        shouldProcessWebexMessage([roomType |-> roomType, isBotMentioned |-> mentionsBot],
                                  requireMention)
        = GateTable(roomType, requireMention, mentionsBot)
  /\ \A id \in Posted :
        requests[id] \in {"recordMeta", "dispatch"}
        => GateTable(messages[id].roomType, requireMentionInGroups, MentionsBot(id))

\* The handler has dropped a group message of a user that does not mention
\* the bot, under a policy that requires the mention, and has passed on one
\* that mentions it.
C11_Witness ==
  /\ requireMentionInGroups
  /\ \E id \in Posted :
        /\ messages[id].roomType = "group"
        /\ messages[id].personEmail = UserEmail
        /\ ~MentionsBot(id)
        /\ requests[id] = "done"
        /\ dispatched["webhook"][id] = 0
  /\ \E id \in Posted :
        /\ messages[id].roomType = "group"
        /\ MentionsBot(id)
        /\ requests[id] = "dispatch"

\* The message has been handed to the agent by one path or the other.
Dispatched(id) == dispatched["poll"][id] >= 1 \/ dispatched["webhook"][id] >= 1

\* C12: with groupPolicy "disabled" no message of a group room is dispatched,
\* by either path, mentioning the bot or not.
C12_DisabledGroupsNeverDispatched ==
  groupPolicy = "disabled"
  => \A id \in Posted : messages[id].roomType = "group" => ~Dispatched(id)

\* C13: a group message that does not mention the bot is dispatched only
\* when groupPolicy is "open"; under every other setting, the policy left
\* unset included, both paths require the mention, as resolveRequireMention
\* does.
C13_UnmentionedGroupOnlyWhenOpen ==
  \A id \in Posted :
     (messages[id].roomType = "group" /\ ~MentionsBot(id) /\ Dispatched(id))
     => (groupPolicy = "open" /\ ~resolveRequireMention)

\* The other bodies that have been POSTed to the webhook path.
PostedBodies == { b \in Bodies : posts[b] # NotPosted }

\* C14: every POST to the webhook path is answered 200, whatever its body and
\* whatever becomes of it afterwards.
C14_AlwaysAcknowledged200 ==
  \A b \in PostedBodies : posts[b].status = 200

\* C15: an event of another resource, or another event than "created", is
\* answered 200 and dropped at the filter: no getMessage call, no dispatch,
\* no failure logged.
C15_OtherEventsFiltered ==
  \A b \in PostedBodies \ {"malformed"} :
     (EventOf(b).resource # "messages" \/ EventOf(b).event # "created")
     => posts[b] = [status |-> 200, outcome |-> "filtered"]

\* Both kinds of event have been POSTed and answered.
C15_Witness ==
  /\ posts["otherResource"].status = 200
  /\ posts["otherEvent"].status = 200

\* The handler's call of getMessage for the message has thrown: the message
\* would have passed the gate, the request is over, and nothing was dispatched.
GetMessageThrew(id) ==
  /\ messages[id].personEmail # BotEmail
  /\ shouldProcessWebexMessage(ParsedByWebhook(id), requireMentionInGroups)
  /\ requests[id] = "done"
  /\ dispatched["webhook"][id] = 0

\* C16: no step of the webhook handler, an exception in its asynchronous
\* phase included, stops the server or changes where startup and shutdown
\* stand; and as long as the server listens, a request that arrives is taken.
C16_HandlerErrorsCaught ==
  [][/\ (requests' # requests \/ posts' # posts)
          => (server' = server /\ phase' = phase /\ pollingInterval' = pollingInterval)
     /\ \A id \in Posted :
          (server = "listening" /\ Subscribed /\ requests[id] = "none")
          => ENABLED WebhookPost(id)]_vars

\* getMessage has thrown for one request, an event without data has thrown in
\* the handler, the server still listens and another request is being
\* dispatched.
C16_Witness ==
  /\ server = "listening"
  /\ posts["noData"].outcome = "threw"
  /\ \E id1, id2 \in Posted :
        /\ id1 # id2
        /\ GetMessageThrew(id1)
        /\ requests[id2] = "dispatch"

\* Every dispatch of the message by the polling loop has thrown: it was
\* dispatched, no dispatch of it is in flight, and its room has no watermark,
\* which the return of a dispatch would have set.
PollDispatchThrew(id) ==
  /\ dispatched["poll"][id] >= 1
  /\ lastMessageTimeByRoom[RoomOf(id)] = Absent
  /\ \A k \in TickIds :
        ticks[k].pc \in {"recordMeta", "dispatch"} => ticks[k].items[ticks[k].mi] # id

\* C17: whatever a tick's calls for one room do, throw included, the tick
\* does not end while rooms remain, it goes on with the same room or enters
\* the next one, and the timer stays armed.
C17_RoomFailureIsolated ==
  [][\A k \in TickIds :
       (ticks[k].pc \in {"listMessages", "recordMeta", "dispatch"} /\ ticks'[k] # ticks[k])
       => /\ pollingInterval' = pollingInterval
          /\ ticks[k].ri < Len(ticks[k].rooms)
             => /\ ticks'[k].pc \in {"listMessages", "recordMeta", "dispatch"}
                /\ ticks'[k].rooms = ticks[k].rooms
                /\ ticks'[k].ri \in {ticks[k].ri, ticks[k].ri + 1}]_vars

\* The dispatch of a message of the first room has thrown, the tick is at
\* the second room, and a later tick has been started.
C17_Witness ==
  /\ pollingInterval
  /\ ticks[1].ri = 2
  /\ ticks[1].pc = "listMessages"
  /\ ticks[2].pc # "idle"
  /\ \E id \in Posted : RoomOf(id) = ticks[1].rooms[1] /\ PollDispatchThrew(id)

\* shutdown() has been called in this run.
ShutdownInvoked == phase \in {"deleteWebhook", "closing", "stopped"}

\* C18: once shutdown has been called the timer is cleared and no tick is
\* started any more; a tick that is running goes on.
C18_NoTickAfterShutdown ==
  [][ShutdownInvoked
     => /\ ~pollingInterval
        /\ \A k \in TickIds :
             /\ ticks[k].pc = "idle" => ticks'[k].pc = "idle"
             /\ ticks[k].pc = "listRooms" => ENABLED ListRoomsReturns(k, TRUE)
             /\ ticks[k].pc = "recordMeta" => ENABLED PollDispatches(k)]_vars

\* Shutdown has been called before the timer fired: the first tick is in
\* flight, awaiting its dispatch, and the second tick has not been started.
C18_Witness ==
  /\ ShutdownInvoked
  /\ enablePolling
  /\ ticks[1].pc = "dispatch"
  /\ ticks[2].pc = "idle"

\* C19: when shutdown is called with a subscription id, deleteWebhook is
\* called for it, whatever the timer and the server are; and when the call
\* returns or throws, shutdown goes on to close the server, which is no
\* longer listening once shutdown is over.
C19_DeleteFailureTolerated ==
  [][/\ (phase = "running" /\ ShutdownInvoked' /\ webhookId # Null)
          => /\ phase' = "deleteWebhook"
             /\ calls' = Append(calls, [op |-> "deleteWebhook", id |-> webhookId, run |-> run])
     /\ (phase = "deleteWebhook" /\ phase' # phase /\ run' = run)
          => /\ phase' \in {"closing", "stopped"}
             /\ server' # "listening"
     /\ (phase' = "stopped" /\ run' = run) => server' # "listening"]_vars

\* Shutdown is over and the server closed although deleteWebhook failed: the
\* subscription is still registered.
C19_Witness ==
  /\ phase = "stopped"
  /\ server = "closed"
  /\ webhookId = NewWebhook(run).id
  /\ \E w \in remoteWebhooks : w.id = webhookId

\* C20: resolveWebexCredentials returns the trimmed environment token when it
\* is not blank, whatever the configuration holds; else the trimmed
\* configuration token when that is not blank; else null. A token that is
\* missing, empty or all blanks counts as absent.
C20_EnvTokenTakesPrecedence ==
  credentials # Unresolved
  => LET Blank(token) == token = NoToken \/ \A i \in 1..Len(token) : token[i] = " "
     IN  /\ ~Blank(envToken)
              => credentials = [state |-> "resolved", botToken |-> Trim(envToken)]
         /\ (Blank(envToken) /\ ~Blank(configToken))
              => credentials = [state |-> "resolved", botToken |-> Trim(configToken)]
         /\ (Blank(envToken) /\ Blank(configToken)) => credentials = NoCredentials

\* Both tokens are set and differ after trimming, the environment's has
\* blanks around it, and the credentials have been resolved.
C20_Witness ==
  /\ credentials # Unresolved
  /\ envToken = << " ", "a", " " >>
  /\ configToken = << "a", "a" >>

\* C21: whatever the operation, a response outside 200..299 is never turned
\* into a value: the operation rejects with an error whose statusCode is the
\* response's status, whose message is the body's message (else its error,
\* else "HTTP <status>") and whose trackingId is the TrackingID header when
\* there is one; and a 204 resolves to an empty value without reading a body.
C21_ErrorsCarryStatus ==
  LET r == api.response IN
  /\ (r # NoResponse /\ r.status \notin 200..299)
       => /\ api.pc \in {"errorJson", "threw"}
          /\ api.pc = "threw"
               => /\ api.result.kind = "error"
                  /\ api.result.statusCode = r.status
                  /\ (r.body.kind = "object" /\ r.body.message \notin {Undefined, ""})
                       => api.result.message = r.body.message
                  /\ (r.body.kind = "object" /\ r.body.message \in {Undefined, ""}
                        /\ r.body.error # Undefined)
                       => api.result.message = r.body.error
                  /\ (r.body.kind # "object" \/ (r.body.message \in {Undefined, ""}
                        /\ r.body.error = Undefined))
                       => api.result.message = "HTTP " \o ToString(r.status)
                  /\ r.trackingId # "null" => api.result.trackingId = r.trackingId
  /\ r.status = 204
       => /\ api.pc = "returned"
          /\ api.result.kind = "value"
          /\ api.result.value \in {"empty", "void"}

\* getMessage has rejected with the 404 of the server, its message and its
\* tracking id.
C21_Witness ==
  /\ api.op = "getMessage"
  /\ api.pc = "threw"
  /\ api.response.status = 404
  /\ api.result = [NoResult EXCEPT !.kind = "error", !.message = "Not Found",
                                   !.statusCode = 404, !.trackingId = "TRK-1"]

\* C29: from its call to its settling, and whatever the response (429 and
\* 5xx included), an operation of the client has issued exactly one fetch.
C29_OneFetchPerOperation ==
  api.pc # "idle" => api.fetches = 1

\* listRooms has rejected with the 500 of the server after a single fetch.
C29_Witness ==
  /\ api.op = "listRooms"
  /\ api.pc = "threw"
  /\ api.response.status = 500
  /\ api.result.statusCode = 500
  /\ api.fetches = 1

\* C22: the messageId of the normalized message is the id of the raw event's
\* data on the webhook path and the id of the polled message on the polling
\* path, and the MessageSid a path hands to the dispatcher is the id of the
\* message that path is processing.
C22_MessageIdRoundTrips ==
  /\ \A id \in Posted :
        /\ ParsedByWebhook(id).messageId = WebhookEvent(id).data.id
        /\ ParsedByPoll(id).messageId = RemoteMessage(id).id
  /\ \A id \in MsgIds :
        /\ dispatched["webhook"][id] >= 1
             => (id \in Posted /\ requests[id] \in {"dispatch", "done"})
        /\ dispatched["poll"][id] >= 1 => id \in fetched
  /\ \A id \in Posted : requests[id] = "dispatch" => dispatched["webhook"][id] >= 1
  /\ \A k \in TickIds :
        ticks[k].pc = "dispatch" => dispatched["poll"][ticks[k].items[ticks[k].mi]] >= 1

\* The two paths have each dispatched a message, the second message among
\* them, under the id it has on the platform.
C22_Witness ==
  \E a, b \in Posted :
     /\ a # b
     /\ dispatched["webhook"][a] = 1 /\ dispatched["poll"][a] = 0
     /\ dispatched["poll"][b] = 1 /\ dispatched["webhook"][b] = 0

\* C30: the normalizer's roomType is "direct" when the raw roomType is the
\* literal "direct" and "group" for every other value, absent and unknown
\* ones included, on both paths; so a message of any other roomType that
\* does not mention the bot is held back like a group message.
C30_RoomTypeTwoStates ==
  /\ \A id \in Posted :
        LET expected == IF messages[id].roomType = "direct" THEN "direct" ELSE "group" IN
        /\ ParsedByWebhook(id).roomType = expected
        /\ ParsedByPoll(id).roomType = expected
  /\ requireMentionInGroups
       => \A id \in Posted :
             (messages[id].roomType # "direct" /\ ~MentionsBot(id))
             => requests[id] \notin {"recordMeta", "dispatch"} /\ dispatched["webhook"][id] = 0

\* A message without a roomType and one of an unknown roomType, neither
\* mentioning the bot, have been through the handler.
C30_Witness ==
  /\ requireMentionInGroups
  /\ \E a, b \in Posted :
        /\ messages[a].roomType = Undefined /\ messages[b].roomType = "team"
        /\ messages[a].personEmail = UserEmail /\ messages[b].personEmail = UserEmail
        /\ ~MentionsBot(a) /\ ~MentionsBot(b)
        /\ requests[a] = "done" /\ requests[b] = "done"

\* The promise of monitorWebexProvider has rejected. No statement of the
\* function throws outside a try block, so no action sets this phase.
StartupRejected == phase = "rejected"

\* C23: when no bot token is resolvable, startup ends in an error, not in a
\* returned result.
C23_NoTokenFailsLoudly ==
  credentials = NoCredentials => StartupRejected

\* C24: in polling-only mode no step of startup, shutdown or restart opens
\* the HTTP listener, issues a listWebhooks, createWebhook or deleteWebhook
\* call, or changes the subscriptions registered remotely.
C24_PollingOnlyNoWebhookSide ==
  [][mode = "polling"
     => /\ server' = "none"
        /\ calls' = << >>
        /\ webhookId' = Null
        /\ remoteWebhooks' = remoteWebhooks]_vars

\* A polling-only monitor has been started, shut down, started again and
\* shut down again, next to a subscription for its url that is still there.
C24_Witness ==
  /\ mode = "polling"
  /\ run = 2
  /\ phase = "stopped"
  /\ remoteWebhooks = {PreMatching}

\* C26: the configured mode determines the two flags ("webhook" and no mode
\* the webhook side only, "polling" the polling side only, "both" both), and
\* a monitor that has started has at least one of them.
C26_ModeDeterminesFlags ==
  /\ configMode \in {"webhook", Undefined} => (enableWebhook /\ ~enablePolling)
  /\ configMode = "polling" => (~enableWebhook /\ enablePolling)
  /\ configMode = "both" => (enableWebhook /\ enablePolling)
  /\ phase = "running" => (enableWebhook \/ enablePolling)

CreateCalls(log, n) == { i \in 1..Len(log) : log[i].op = "createWebhook" /\ log[i].run = n }

\* C28: within a run the subscription id is written by the registration
\* step of startup only, once, from null; from the end of startup on,
\* shutdown included, it does not change; and a run calls createWebhook at
\* most once.
C28_WebhookIdSingleWriter ==
  [][/\ (run' = run /\ webhookId' # webhookId)
          => (phase \in {"listWebhooks", "createWebhook"} /\ webhookId = Null)
     /\ (run' = run /\ phase \notin {"start", "listWebhooks", "createWebhook"})
          => webhookId' = webhookId
     /\ \A n \in 1..MaxRuns : Cardinality(CreateCalls(calls', n)) <= 1]_vars

\* A run has created its subscription, deleted it at shutdown and closed
\* the server, and still holds the id it wrote at startup.
C28_Witness ==
  /\ phase = "stopped"
  /\ webhookId = NewWebhook(run).id
  /\ Cardinality(CreateCalls(calls, run)) = 1
  /\ \A w \in remoteWebhooks : w.id # webhookId

\* A tick is between its listMessages call for room r and the end of its
\* loop over the messages of r.
InProcess(r) ==
  \E k \in TickIds :
     /\ ticks[k].pc \in {"listMessages", "recordMeta", "dispatch"}
     /\ ticks[k].rooms[ticks[k].ri] = r

\* C25: with no failure and no overlap of ticks, whenever no tick is at work
\* on a room, the room's watermark is the largest of the loop-start time and
\* the createdAt of every message the ticks have fetched in it, the bot's own
\* and the gated-out ones included.
C25_WatermarkCoversFiltered ==
  \A r \in Rooms :
     (phase # "start" /\ ~InProcess(r))
     => LastTimeOf(lastMessageTimeByRoom, r) = Max(pollStartTime, MaxSeen(r))

\* Under a policy that requires the mention, a tick has fetched a message of
\* the bot and an unmentioning message of a user in the group room, both
\* newer than the loop start, has dispatched neither, and has left the
\* watermark at the later of the two.
C25_Witness ==
  /\ groupPolicy = "mention"
  /\ TicksQuiet
  /\ \E a, b \in fetched :
        /\ RoomOf(a) = "grp" /\ RoomOf(b) = "grp"
        /\ messages[a].personEmail = BotEmail
        /\ messages[b].personEmail = UserEmail /\ ~MentionsBot(b)
        /\ CreatedAt(a) > pollStartTime /\ CreatedAt(b) > CreatedAt(a)
        /\ dispatched["poll"][a] = 0 /\ dispatched["poll"][b] = 0
        /\ lastMessageTimeByRoom["grp"] = CreatedAt(b)

\* C31: the normalized message's isBotMentioned is true exactly when the bot's
\* id is one of the event's mentionedPeople, and false when the event has no
\* mentionedPeople or an empty list; under a policy that requires the mention,
\* a message of a group room is dispatched only when the bot's id is listed.
C31_MentionIffBotIdListed ==
  \A id \in Posted :
     LET people == messages[id].mentionedPeople IN
     /\ ParsedByWebhook(id).isBotMentioned
          = (people # NoPeople /\ \E i \in 1..Len(people) : people[i] = BotId)
     /\ ParsedByPoll(id).isBotMentioned = ParsedByWebhook(id).isBotMentioned
     /\ people \in {NoPeople, << >>} => ~ParsedByWebhook(id).isBotMentioned
     /\ (requireMentionInGroups /\ dispatched["webhook"][id] >= 1)
          => people \in {<< BotId >>, << OtherId, BotId >>}

\* A message that lists another member and the bot has been dispatched, and
\* the handler is done with one that lists the other member only, without a
\* dispatch.
C31_Witness ==
  \E a, b \in Posted :
     /\ messages[a].mentionedPeople = << OtherId, BotId >>
     /\ dispatched["webhook"][a] >= 1
     /\ messages[b].mentionedPeople = << OtherId >>
     /\ messages[b].personEmail = UserEmail
     /\ requests[b] = "done" /\ dispatched["webhook"][b] = 0

\* C32: the normalized message's text is never undefined: a text the full
\* message lacks is normalized to the empty string.
C32_TextNeverUndefined ==
  \A id \in Posted :
     /\ ParsedByWebhook(id).text # Undefined
     /\ ParsedByPoll(id).text # Undefined
     /\ messages[id].text = Undefined => ParsedByWebhook(id).text = ""

\* C35: the token the startup probe authenticates with is the token the API
\* client of the ingestion is made with, whatever the environment's and the
\* configuration's tokens are.
C35_ProbeTokenIsClientToken ==
  probe.state # "none" => probe.token = credentials.botToken

\* The calls of deleteWebhook this run has issued for subscription w.
DeleteCalls(w) ==
  { i \in 1..Len(calls) : calls[i].op = "deleteWebhook" /\ calls[i].id = w
                           /\ calls[i].run = run }

\* C36: however often shutdown is invoked, by the abort signal and by calls
\* of the returned function, deleteWebhook is issued at most once for the
\* subscription id.
C36_DeleteIssuedAtMostOnce ==
  webhookId # Null => Cardinality(DeleteCalls(webhookId)) <= 1

\* Shutdown has been performed: nothing is left running, the timer is
\* stopped, the listener is closed and the deletion of the tracked
\* subscription has been issued.
ShutdownPerformed ==
  /\ phase \in {"stopped", "aborted"}
  /\ ~pollingInterval
  /\ server # "listening"
  /\ webhookId # Null => DeleteCalls(webhookId) # {}

\* C37: whenever the abort signal fires, during startup or after it,
\* shutdown is eventually performed.
C37_AbortLeadsToShutdown ==
  abortSignal ~> ShutdownPerformed

\* Startup has returned for one of the three reasons: the provider is not
\* enabled, there are no credentials, or the probe failed.
NothingToStart ==
  /\ phase \notin {"start", "probe"}
  /\ ~enabled \/ credentials = NoCredentials \/ probe.state = "failed"

\* C38: a provider that is not enabled, has no credentials, or whose probe
\* fails starts nothing: no listener, no timer, no tick, no listWebhooks or
\* createWebhook call, and a call of the returned shutdown issues no remote
\* call either.
C38_EarlyReturnStartsNothing ==
  NothingToStart
    => /\ phase = "aborted"
       /\ server = "none"
       /\ ~pollingInterval
       /\ \A k \in TickIds : ticks[k].pc = "idle"
       /\ webhookId = Null
       /\ \A i \in 1..Len(calls) : calls[i].run # run
       /\ remoteWebhooks \in PreExisting

\* The probe has failed and the returned shutdown has been called.
C38_Witness ==
  /\ enabled /\ credentials # NoCredentials /\ probe.state = "failed"
  /\ phase = "aborted" /\ again = "done"

\* C34: when the dispatch of a message throws in a tick, the room's watermark
\* is left below the message's createdAt, so that the next tick considers the
\* message, and every newer one, again.
C34_FailedDispatchStaysAboveWatermark ==
  [][\A k \in TickIds :
        DispatchReturns(k, FALSE)
          => LET t == ticks[k] IN
             LastTimeOf(lastMessageTimeByRoom', t.rooms[t.ri]) < CreatedAt(t.items[t.mi])]_vars

\* C33: with ticks that run again and again and never fail, every message
\* of a room of the bot that was created after the loop started, by someone
\* else than the bot, and passes the gate is eventually dispatched by the
\* polling loop, whatever the createdAt values are.
C33_EligibleEventuallyDispatched ==
  \A id \in MsgIds :
     (phase = "running" /\ id \in Posted /\ Eligible(id)) ~> (dispatched["poll"][id] >= 1)
====
